---- MODULE Spec2Model ----
(***************************************************************************)
(* Model of the page component `Home` of src/src/app/page.tsx: the         *)
(* interpretation selector (selectedId / selectedInterpretation) and the   *)
(* quiz engine (quizAnswers / submitted / score).                          *)
(*                                                                         *)
(* JavaScript arrays are modelled as functions over 0..n-1, so the indices *)
(* are the indices of the source.  A value that may be `undefined` is an   *)
(* option: the empty tuple << >> for undefined, << v >> for the value v.   *)
(*                                                                         *)
(* The three useState cells are the variables selectedId, quizAnswers and  *)
(* submitted.  The variable `rendered` is the output of the last committed *)
(* render: the values the click handlers of the buttons on screen have     *)
(* closed over, and the two useMemo results.                               *)
(***************************************************************************)
EXTENDS Integers, Sequences, FiniteSets, TLC

VARIABLES selectedId, quizAnswers, submitted, rendered, lastOp, prevOp

vars == <<selectedId, quizAnswers, submitted, rendered, lastOp, prevOp>>

(***************************************************************************)
(* Bounds                                                                  *)
(***************************************************************************)
\* how many identifiers that match no interpretation a caller may pass
MaxUnknownIds == 2

(***************************************************************************)
(* JavaScript array helpers                                                *)
(***************************************************************************)
\* an array literal: the 0-based function of a 1-based tuple
Arr(seq) == [i \in 0..(Len(seq) - 1) |-> seq[i + 1]]

\* array.length
Length(a) == Cardinality(DOMAIN a)

\* const next = [...prev]; next[index] = value; (an index past the end grows
\* the array)
ArraySet(prev, index, value) ==
    [j \in (DOMAIN prev) \cup {index} |-> IF j = index THEN value ELSE prev[j]]

\* a ?? b
Nullish(a, b) == IF a = << >> THEN b ELSE a[1]

(***************************************************************************)
(* Static content tables                                                   *)
(***************************************************************************)
reinterpretations ==
    Arr(<< [id |-> "char",
            view |-> Arr(<<"'A' (0x41)", "'\\0'", "?", "?", "?", "?", "?", "?">>)],
           [id |-> "int",
            view |-> Arr(<<"0x00", "0x04", "0x00", "0x00", "?", "?", "?", "?">>)],
           [id |-> "double",
            view |-> Arr(<<"0x18", "0x2D", "0x44", "0x54", "0xFB", "0x21", "0x09", "0x40">>)],
           [id |-> "struct",
            view |-> Arr(<<"id: 7", "id bytes...", "ratio: 0.75f", "...">>)] >>)

\* each question: its options (by position) and the index of the correct one
quizQuestions ==
    Arr(<< [options |-> Arr(<<"automatic", "generic", "infer", "prevent">>),
            answer |-> 1],
           [options |-> Arr(<<"compare", "assignNull", "arithmetic", "cast">>),
            answer |-> 2],
           [options |-> Arr(<<"primitive", "aligned", "typedef", "size">>),
            answer |-> 1] >>)

\* the identifiers of the interpretation table
InterpretationIds == {reinterpretations[i].id : i \in DOMAIN reinterpretations}

\* identifiers that match no entry (empty, wrong case, not a table key)
UnknownPool == <<"", "CHAR", "void", "float">>
UnknownIds == {UnknownPool[k] : k \in 1..MaxUnknownIds}

(***************************************************************************)
(* Derived values (the two useMemo computations)                           *)
(***************************************************************************)
\* reinterpretations.find((entry) => entry.id === id): first match or undefined
RECURSIVE find(_, _)
find(id, i) ==
    IF i >= Length(reinterpretations) THEN << >>
    ELSE IF reinterpretations[i].id = id THEN << reinterpretations[i] >>
    ELSE find(id, i + 1)

\* mutation of selectedInterpretation: the lookup is lost, the first entry
\* is always returned
selectedInterpretationAlwaysFirst(id) == reinterpretations[0]

selectedInterpretation(id) == Nullish(find(id, 0), reinterpretations[0])

\* quizQuestions[index]?.answer
answerAt(index) ==
    IF index \in DOMAIN quizQuestions THEN << quizQuestions[index].answer >> ELSE << >>

\* mutation of reduce: the comparison is <= instead of ===
RECURSIVE reduceLoose(_, _, _)
reduceLoose(answers, index, total) ==
    IF index >= Length(answers) THEN total
    ELSE reduceLoose(answers, index + 1,
                     IF answerAt(index) # << >> /\ answers[index] <= answerAt(index)[1]
                     THEN total + 1 ELSE total)

\* quizAnswers.reduce((total, answer, index) => ..., 0)
RECURSIVE reduce(_, _, _)
reduce(answers, index, total) ==
    IF index >= Length(answers) THEN total
    ELSE reduce(answers, index + 1,
                IF << answers[index] >> = answerAt(index) THEN total + 1 ELSE total)

\* mutation of score: the fold starts at the second question
scoreSkipsFirst(answers) == reduce(answers, 1, 0)

score(answers) == reduce(answers, 0, 0)

(***************************************************************************)
(* Handlers                                                                *)
(***************************************************************************)
\* Array.from({ length: quizQuestions.length }, () => -1)
initialAnswers == [i \in 0..(Length(quizQuestions) - 1) |-> -1]

\* mutation of optionOnClick: the guard is dropped
optionOnClickUnguarded(closureSubmitted, prev, index, optionIndex) ==
    ArraySet(prev, index, optionIndex)

\* mutation of optionOnClick: the guard is inverted
optionOnClickInverted(closureSubmitted, prev, index, optionIndex) ==
    IF ~closureSubmitted THEN prev ELSE ArraySet(prev, index, optionIndex)

\* mutation of optionOnClick: the option is recorded by its 1-based position
optionOnClickOneBased(closureSubmitted, prev, index, optionIndex) ==
    IF closureSubmitted THEN prev ELSE ArraySet(prev, index, optionIndex + 1)

\* option button onClick: closureSubmitted is the `submitted` of the render
\* that created the handler; prev is the current state given to the updater
optionOnClick(closureSubmitted, prev, index, optionIndex) ==
    IF closureSubmitted THEN prev ELSE ArraySet(prev, index, optionIndex)

\* mutation of submitOnClick: the flag is toggled
submitOnClickToggles(prevSubmitted) == ~prevSubmitted

\* Submit button onClick: setSubmitted(true)
submitOnClick(prevSubmitted) == TRUE

\* mutation of resetOnClick: the answers are cleared, the flag is left alone
resetOnClickKeepsFlag(prevSubmitted, prev) ==
    [submitted |-> prevSubmitted, quizAnswers |-> initialAnswers]

\* Reset button onClick: setSubmitted(false); setQuizAnswers(Array.from(...))
resetOnClick(prevSubmitted, prev) ==
    [submitted |-> FALSE, quizAnswers |-> initialAnswers]

\* mutation of selectOnClick: an identifier outside the table is dropped
selectOnClickKeepsOnUnknown(prevId, id) ==
    IF id \in InterpretationIds THEN id ELSE prevId

\* interpretation button onClick: setSelectedId(id)
selectOnClick(prevId, id) == id

\* the option buttons on screen: one per question and option of the question
OptionButtons ==
    {<<index, optionIndex>> \in (DOMAIN quizQuestions) \X (0..7) :
        optionIndex \in DOMAIN quizQuestions[index].options}

\* the three class strings of an option button
HighlightCorrect == "border-emerald-400/60 bg-emerald-500/20"
HighlightChosen == "border-emerald-400/40 bg-emerald-500/10"
HighlightNeutral == "border-white/10 bg-black/20 hover:border-emerald-300/50 hover:text-white"

\* const userAnswer = quizAnswers[index]
userAnswerAt(answers, index) ==
    IF index \in DOMAIN answers THEN << answers[index] >> ELSE << >>

\* mutation of highlight: the `submitted &&` of the first test is lost
highlightAlwaysReveals(sub, answers, index, optionIndex) ==
    IF optionIndex = quizQuestions[index].answer THEN HighlightCorrect
    ELSE IF userAnswerAt(answers, index) = << optionIndex >> THEN HighlightChosen
    ELSE HighlightNeutral

\* mutation of highlight: the two tests are swapped, chosen is tested first
highlightChosenFirst(sub, answers, index, optionIndex) ==
    IF userAnswerAt(answers, index) = << optionIndex >> THEN HighlightChosen
    ELSE IF sub /\ optionIndex = quizQuestions[index].answer THEN HighlightCorrect
    ELSE HighlightNeutral

\* const highlight = submitted && optionIsAnswer ? ... : chosen ? ... : ...
highlight(sub, answers, index, optionIndex) ==
    IF sub /\ optionIndex = quizQuestions[index].answer THEN HighlightCorrect
    ELSE IF userAnswerAt(answers, index) = << optionIndex >> THEN HighlightChosen
    ELSE HighlightNeutral

\* {submitted && (<p>Explanation: ...</p>)}: is the paragraph rendered
explanationShown(sub, index) == sub

\* mutation of pointerBlocks: one block short
pointerBlocksShort == [i \in 0..(7 - 1) |-> [index |-> i]]

\* Array.from({ length: 8 }, (_, index) => ({ index, address })); only the
\* index of a block is modelled, the address label is not
pointerBlocks == [i \in 0..(8 - 1) |-> [index |-> i]]

\* the text of a cell without a byte string: the em dash (U+2014) of the
\* source, written here in ASCII; no byte view contains it
Placeholder == "--"

\* mutation of cell: the view is read one slot too far
cellOffByOne(interpretation, block) ==
    Nullish(IF block.index + 1 \in DOMAIN interpretation.view
            THEN << interpretation.view[block.index + 1] >> ELSE << >>,
            Placeholder)

\* selectedInterpretation.view[block.index] ?? (em dash)
cell(interpretation, block) ==
    Nullish(IF block.index \in DOMAIN interpretation.view
            THEN << interpretation.view[block.index] >> ELSE << >>,
            Placeholder)

\* pointerBlocks.map((block) => <div> ... </div>): the texts of the cells
grid(interpretation) ==
    [k \in DOMAIN pointerBlocks |-> cell(interpretation, pointerBlocks[k])]

\* the output of a render of the state (id, answers, sub)
Render(id, answers, sub) ==
    [submitted |-> sub,
     score |-> score(answers),
     selectedInterpretation |-> selectedInterpretation(id),
     grid |-> grid(selectedInterpretation(id)),
     highlight |-> [b \in OptionButtons |-> highlight(sub, answers, b[1], b[2])],
     explanation |-> [index \in DOMAIN quizQuestions |-> explanationShown(sub, index)]]

Op(name, index, optionIndex, id) ==
    [op |-> name, index |-> index, optionIndex |-> optionIndex, id |-> id]

(***************************************************************************)
(* State machine                                                           *)
(***************************************************************************)
Init ==
    /\ selectedId = reinterpretations[0].id
    /\ quizAnswers = initialAnswers
    /\ submitted = FALSE
    /\ rendered = Render(reinterpretations[0].id, initialAnswers, FALSE)
    /\ lastOp = Op("init", -1, -1, "")
    /\ prevOp = "init"

\* React commits the re-render (flush) or leaves the previous render on screen
Commit(flush) ==
    rendered' = IF flush THEN Render(selectedId', quizAnswers', submitted')
                ELSE rendered

Record(op) ==
    /\ lastOp' = op
    /\ prevOp' = lastOp.op

ChooseAnswerEvent(index, optionIndex, flush) ==
    /\ quizAnswers' = optionOnClick(rendered.submitted, quizAnswers, index, optionIndex)
    /\ UNCHANGED <<selectedId, submitted>>
    /\ Commit(flush)
    /\ Record(Op("chooseAnswer", index, optionIndex, ""))

SubmitEvent(flush) ==
    /\ submitted' = submitOnClick(submitted)
    /\ UNCHANGED <<selectedId, quizAnswers>>
    /\ Commit(flush)
    /\ Record(Op("submit", -1, -1, ""))

ResetEvent(flush) ==
    /\ submitted' = resetOnClick(submitted, quizAnswers).submitted
    /\ quizAnswers' = resetOnClick(submitted, quizAnswers).quizAnswers
    /\ UNCHANGED selectedId
    /\ Commit(flush)
    /\ Record(Op("reset", -1, -1, ""))

SelectEvent(id, flush) ==
    /\ selectedId' = selectOnClick(selectedId, id)
    /\ UNCHANGED <<quizAnswers, submitted>>
    /\ Commit(flush)
    /\ Record(Op("select", -1, -1, id))

(***************************************************************************)
(* Spec: a user clicking the page.  Each click is its own browser event;   *)
(* React commits the re-render of a click before the next user event is    *)
(* delivered, so every handler that runs belongs to the render of the      *)
(* current state.                                                          *)
(***************************************************************************)
ChooseAnswer(index, optionIndex) == ChooseAnswerEvent(index, optionIndex, TRUE)
Submit == SubmitEvent(TRUE)
Reset == ResetEvent(TRUE)
Select(id) == SelectEvent(id, TRUE)

Next ==
    \/ \E b \in OptionButtons : ChooseAnswer(b[1], b[2])
    \/ Submit
    \/ Reset
    \/ \E id \in InterpretationIds : Select(id)

Spec == Init /\ [][Next]_vars

(***************************************************************************)
(* SpecRace: clicks dispatched back to back in one task (a script calling  *)
(* click() twice, a batched update).  The state updates are queued and the *)
(* re-render is a later step, so a handler of the render on screen can run *)
(* after the state has moved on.  Only the quiz is exercised: the select   *)
(* handler reads nothing of a render and does not touch the quiz state.    *)
(***************************************************************************)
ClickOption(index, optionIndex) == ChooseAnswerEvent(index, optionIndex, FALSE)
ClickSubmit == SubmitEvent(FALSE)
ClickReset == ResetEvent(FALSE)

Rerender ==
    /\ rendered # Render(selectedId, quizAnswers, submitted)
    /\ rendered' = Render(selectedId, quizAnswers, submitted)
    /\ UNCHANGED <<selectedId, quizAnswers, submitted>>
    /\ Record(Op("render", -1, -1, ""))

NextRace ==
    \/ \E b \in OptionButtons : ClickOption(b[1], b[2])
    \/ ClickSubmit
    \/ ClickReset
    \/ Rerender

SpecRace == Init /\ [][NextRace]_vars

(***************************************************************************)
(* SpecApi: Spec plus a caller of select(id) that passes an identifier     *)
(* the interpretation table does not contain.                              *)
(***************************************************************************)
SelectUnknown(id) == SelectEvent(id, TRUE)

NextApi ==
    \/ \E b \in OptionButtons : ChooseAnswer(b[1], b[2])
    \/ Submit
    \/ Reset
    \/ \E id \in InterpretationIds : Select(id)
    \/ \E id \in UnknownIds : SelectUnknown(id)

SpecApi == Init /\ [][NextApi]_vars

(***************************************************************************)
(* Helpers of the properties                                               *)
(***************************************************************************)
\* the questions whose recorded answer is the question's correct index
CorrectlyAnswered ==
    {i \in DOMAIN quizAnswers :
        i \in DOMAIN quizQuestions /\ quizAnswers[i] = quizQuestions[i].answer}

\* the questions with a recorded answer other than the sentinel
Answered == {i \in DOMAIN quizAnswers : quizAnswers[i] # -1}

(***************************************************************************)
(* Properties                                                              *)
(***************************************************************************)
\* C1: after any sequence of chooseAnswer, submit and reset, the score (the
\* one on screen and the one computed from the state) is the number of
\* questions whose recorded answer is the correct index, and a chooseAnswer
\* made while Answering leaves its option as the recorded answer.
C1_ScoreCountsLatestAnswers ==
    /\ rendered.score = Cardinality(CorrectlyAnswered)
    /\ score(quizAnswers) = Cardinality(CorrectlyAnswered)
    /\ (lastOp.op = "chooseAnswer" /\ ~submitted)
          => quizAnswers[lastOp.index] = lastOp.optionIndex

\* two chooseAnswer in a row on one question, the later one correct
C1_Witness ==
    /\ prevOp = "chooseAnswer"
    /\ lastOp.op = "chooseAnswer"
    /\ Answered = {lastOp.index}
    /\ rendered.score = 1

\* C2: a chooseAnswer made while the quiz is Reviewed changes neither the
\* recorded answers, nor the submitted flag, nor the selected interpretation.
C2_ChooseAnswerWhileReviewedIsNoOp ==
    [][(submitted /\ lastOp'.op = "chooseAnswer")
         => /\ quizAnswers' = quizAnswers
            /\ submitted' = submitted
            /\ selectedId' = selectedId
            /\ rendered' = rendered]_vars

\* a chooseAnswer was made on a Reviewed quiz, for an option other than the
\* recorded one
C2_Witness ==
    /\ lastOp.op = "chooseAnswer"
    /\ prevOp = "submit"
    /\ submitted
    /\ quizAnswers[lastOp.index] # lastOp.optionIndex

\* C4: after reset the quiz is Answering and the recorded answers are one
\* sentinel per question.
C4_ResetClearsEverything ==
    lastOp.op = "reset"
      => /\ ~submitted
         /\ ~rendered.submitted
         /\ DOMAIN quizAnswers = DOMAIN quizQuestions
         /\ \A i \in DOMAIN quizAnswers : quizAnswers[i] = -1

\* reset was made on a Reviewed quiz
C4_Witness ==
    /\ lastOp.op = "reset"
    /\ prevOp = "submit"
    /\ ~submitted

\* C3: in no interleaving of an option click and a submit do the recorded
\* answers change once submit has been invoked, also when the click's handler
\* belongs to the render that preceded the submit.
C3_LateClickIgnored ==
    [][(submitted /\ lastOp'.op = "chooseAnswer") => quizAnswers' = quizAnswers]_vars

\* C5: a submit that directly follows a submit leaves the state (flag,
\* recorded answers, score, render) as the first submit left it.
C5_SubmitIdempotent ==
    [][(lastOp.op = "submit" /\ lastOp'.op = "submit")
         => /\ submitted' /\ submitted' = submitted
            /\ quizAnswers' = quizAnswers
            /\ score(quizAnswers') = score(quizAnswers)
            /\ rendered' = rendered]_vars

\* two submits in a row, on a quiz with recorded answers
C5_Witness ==
    /\ prevOp = "submit"
    /\ lastOp.op = "submit"
    /\ submitted
    /\ Answered # {}

\* C6: after select(id) with an id of the table, whatever was selected
\* before, current() is the table entry with that id.
C6_SelectThenCurrent ==
    (lastOp.op = "select" /\ lastOp.id \in InterpretationIds)
      => /\ rendered.selectedInterpretation.id = lastOp.id
         /\ selectedInterpretation(selectedId).id = lastOp.id
         /\ \E i \in DOMAIN reinterpretations :
               reinterpretations[i] = rendered.selectedInterpretation

\* the last entry of the table was selected after another selection
C6_Witness ==
    /\ prevOp = "select"
    /\ lastOp.op = "select"
    /\ lastOp.id = "struct"
    /\ rendered.selectedInterpretation.id = "struct"

\* C7 (as claimed): select(id) with an id that matches no entry leaves
\* current() as it was before the call.
C7_UnknownIdKeepsCurrent ==
    [][(lastOp'.op = "select" /\ lastOp'.id \notin InterpretationIds)
         => rendered'.selectedInterpretation = rendered.selectedInterpretation]_vars

\* C7 (amended): select(id) with an id that matches no entry stores the id
\* and current() is the default first entry afterwards, whatever it was
\* before the call.
C7_UnknownIdFallsBackToFirst ==
    (lastOp.op = "select" /\ lastOp.id \notin InterpretationIds)
      => /\ selectedId = lastOp.id
         /\ rendered.selectedInterpretation = reinterpretations[0]
         /\ selectedInterpretation(selectedId) = reinterpretations[0]

\* an unknown id was selected right after another selection
C7_Witness ==
    /\ prevOp = "select"
    /\ lastOp.op = "select"
    /\ lastOp.id \in UnknownIds
    /\ rendered.selectedInterpretation.id = "char"

\* C8: the recorded answers have one entry per question, each the sentinel
\* or an index of an option of its question.
C8_AnswersWellFormed ==
    /\ DOMAIN quizAnswers = DOMAIN quizQuestions
    /\ Length(quizAnswers) = Length(quizQuestions)
    /\ \A i \in DOMAIN quizAnswers :
          \/ quizAnswers[i] = -1
          \/ /\ quizAnswers[i] >= 0
             /\ quizAnswers[i] < Length(quizQuestions[i].options)

\* every question answered, one of them with its last option
C8_Witness ==
    /\ Answered = DOMAIN quizQuestions
    /\ \E i \in DOMAIN quizAnswers :
          quizAnswers[i] = Length(quizQuestions[i].options) - 1

\* C9: once submitted, the flag stays true and the recorded answers stay as
\* they are across every operation other than reset; only reset turns the
\* flag back to false.
C9_OneWayGate ==
    [][/\ (submitted /\ lastOp'.op # "reset")
            => (submitted' /\ quizAnswers' = quizAnswers)
       /\ (submitted /\ ~submitted') => lastOp'.op = "reset"]_vars

\* a chooseAnswer, then a select, on a Reviewed quiz with recorded answers
C9_Witness ==
    /\ submitted
    /\ prevOp = "chooseAnswer"
    /\ lastOp.op = "select"
    /\ Answered # {}
    /\ Answered # DOMAIN quizQuestions

\* C10: submit is accepted however many questions are answered; a sentinel
\* never counts as correct: the score is at most the number of answered
\* questions, and 0 when none is answered.
C10_PartialSubmitSentinelNeverCorrect ==
    /\ lastOp.op = "submit" => (submitted /\ rendered.submitted)
    /\ rendered.score <= Cardinality(Answered)
    /\ score(quizAnswers) <= Cardinality(Answered)
    /\ Answered = {} => rendered.score = 0

\* a submit of a partly answered quiz: two answered, one of them correct
C10_Witness ==
    /\ lastOp.op = "submit"
    /\ prevOp = "chooseAnswer"
    /\ submitted
    /\ Cardinality(Answered) = 2
    /\ rendered.score = 1

\* C11 (as claimed): while Answering every option of every question has
\* the neutral display, whatever answers are recorded, and no explanation is
\* shown.
C11_AnsweringAllNeutral ==
    ~submitted
      => /\ \A b \in OptionButtons : rendered.highlight[b] = HighlightNeutral
         /\ \A index \in DOMAIN quizQuestions : ~rendered.explanation[index]

\* C11 (amended): while Answering no option has the correct-answer
\* highlight and no explanation is shown; the option recorded as the answer
\* of its question has the chosen display and every other option the neutral
\* one.
C11_AnsweringNoCorrectnessFeedback ==
    ~submitted
      => /\ \A b \in OptionButtons :
               /\ rendered.highlight[b] # HighlightCorrect
               /\ (quizAnswers[b[1]] = b[2]) => rendered.highlight[b] = HighlightChosen
               /\ (quizAnswers[b[1]] # b[2]) => rendered.highlight[b] = HighlightNeutral
         /\ \A index \in DOMAIN quizQuestions : ~rendered.explanation[index]

\* Answering, with a correct and a wrong answer recorded and one question
\* unanswered
C11_Witness ==
    /\ ~submitted
    /\ lastOp.op = "chooseAnswer"
    /\ Cardinality(Answered) = 2
    /\ Cardinality(CorrectlyAnswered) = 1

\* C12: while Reviewed each option has exactly one of three displays: the
\* correct-answer highlight when it is the question's correct index, the
\* chosen display when it is the recorded answer and not the correct index,
\* the neutral display otherwise; and the explanation of every question is
\* shown, answered or not.
C12_ReviewedClassification ==
    submitted
      => /\ \A b \in OptionButtons :
               LET correct == quizQuestions[b[1]].answer
                   recorded == quizAnswers[b[1]]
               IN  /\ (b[2] = correct) <=> (rendered.highlight[b] = HighlightCorrect)
                   /\ (b[2] # correct /\ b[2] = recorded)
                         <=> (rendered.highlight[b] = HighlightChosen)
                   /\ (b[2] # correct /\ b[2] # recorded)
                         <=> (rendered.highlight[b] = HighlightNeutral)
         /\ \A index \in DOMAIN quizQuestions : rendered.explanation[index]

\* Reviewed, with one question answered correctly, one answered wrongly and
\* one left unanswered
C12_Witness ==
    /\ submitted
    /\ lastOp.op = "submit"
    /\ Cardinality(Answered) = 2
    /\ Cardinality(CorrectlyAnswered) = 1

\* C13: the byte grid has exactly 8 cells, and cell i (0..7) shows the i-th
\* string of the byte view of the interpretation returned by current() when
\* the view has an i-th string, the placeholder otherwise.
C13_GridShowsCurrentView ==
    LET current == selectedInterpretation(selectedId)
    IN  /\ DOMAIN rendered.grid = 0..7
        /\ Length(rendered.grid) = 8
        /\ \A i \in 0..7 :
              rendered.grid[i] = IF i < Length(current.view)
                                 THEN current.view[i] ELSE Placeholder

\* the struct interpretation, whose view has 4 strings, is on screen: cell 3
\* shows its last string and cells 4..7 the placeholder
C13_Witness ==
    /\ lastOp.op = "select"
    /\ selectedId = "struct"
    /\ rendered.grid[3] = "..."
    /\ \A i \in 4..7 : rendered.grid[i] = Placeholder

TypeOK ==
    /\ selectedId \in InterpretationIds \cup UnknownIds
    /\ submitted \in BOOLEAN
    /\ rendered.submitted \in BOOLEAN
    /\ rendered.score \in 0..Length(quizQuestions)
====
